---------------------------- MODULE Spec2Model ----------------------------
(***************************************************************************)
(* ClusterIQ Agent: the executor registry with its startup provisioning    *)
(* (cmd/agent main package) and the tag identity resolver                  *)
(* (internal/inventory/tag.go).                                            *)
(*                                                                         *)
(* Strings that the code inspects character by character (tag keys, the    *)
(* extracted names) are sequences of one-character strings, "" is <<>>.    *)
(***************************************************************************)
EXTENDS Integers, Sequences, FiniteSets

VARIABLES
    pc,           \* position of main()
    accounts,     \* createExecutors: the account list read from the credentials file
    idx,          \* createExecutors: position of the range loop (1-based)
    executors,    \* AgentService.executors: account name -> CloudExecutor
    err,          \* the error createExecutors returned ("none": nil)
    createCalls,  \* how many times createExecutors was entered
    served,       \* unary calls handled by the gRPC server so far
    tags,         \* resolver: the []Tag argument
    op,           \* resolver: the last function applied to tags
    result        \* resolver: what that function returned

vars == <<pc, accounts, idx, executors, err, createCalls, served, tags, op, result>>

agentVars == <<pc, accounts, idx, executors, err, createCalls, served>>
tagVars == <<tags, op, result>>

-----------------------------------------------------------------------------
(* Bounds *)

MaxAccounts == 3
MaxRPC == 2
MaxName == 1
MaxTags == 2

-----------------------------------------------------------------------------
(* Accounts and executors *)

AWSProvider == "AWS"
GCPProvider == "GCP"
AzureProvider == "Azure"
OtherProvider == "Other"

AccountNames == {"acct-a", "acct-b"}

\* Credential material: two keys that connect, one that does not.
GoodKeys == {"key1", "key2"}
BadKey == "badkey"

\* credentials.AccountConfig records the credentials file can hold.
AccountConfigs ==
    [Provider : {AWSProvider}, Name : AccountNames, Key : GoodKeys \cup {BadKey}]
    \cup [Provider : {GCPProvider, AzureProvider, OtherProvider},
          Name : AccountNames, Key : {"key1"}]

RECURSIVE SeqsUpTo(_, _)
SeqsUpTo(S, n) ==
    IF n = 0 THEN {<<>>}
    ELSE LET shorter == SeqsUpTo(S, n - 1)
         IN shorter \cup {Append(s, x) : s \in {t \in shorter : Len(t) = n - 1}, x \in S}

AccountLists == SeqsUpTo(AccountConfigs, MaxAccounts)

\* The nil CloudExecutor.
Nil == [Name |-> "", Provider |-> "nil", Key |-> ""]

\* cexec.NewAWSExecutor(inventory.NewAccount("", Name, Provider, User, Key), logger):
\* the executor bound to the account, or nil when construction fails.
NewAWSExecutor(account) ==
    IF account.Key = BadKey THEN Nil
    ELSE [Name |-> account.Name, Provider |-> account.Provider, Key |-> account.Key]

\* CloudExecutor.GetAccountName
GetAccountName(exec) == exec.Name

EmptyRegistry == [k \in {} |-> Nil]

ErrNone == "none"
ErrNilExecutor == "Cannot add a nil Executor"
ErrConfigRead == "ConfigReadError"

\* map assignment m[k] = v
MapPut(m, k, v) == [x \in DOMAIN m \cup {k} |-> IF x = k THEN v ELSE m[x]]

\* Mutants of AddExecutor.
AddExecutorNoNilCheck(reg, exec) ==
    [err |-> ErrNone, executors |-> MapPut(reg, GetAccountName(exec), exec)]

AddExecutorKeepFirst(reg, exec) ==
    IF exec = Nil THEN [err |-> ErrNilExecutor, executors |-> reg]
    ELSE IF GetAccountName(exec) \in DOMAIN reg THEN [err |-> ErrNone, executors |-> reg]
    ELSE [err |-> ErrNone, executors |-> MapPut(reg, GetAccountName(exec), exec)]

\* AgentService.AddExecutor: the returned error and the registry afterwards.
AddExecutor(reg, exec) ==
    IF exec = Nil THEN [err |-> ErrNilExecutor, executors |-> reg]
    ELSE [err |-> ErrNone, executors |-> MapPut(reg, GetAccountName(exec), exec)]

-----------------------------------------------------------------------------
(* main() and createExecutors() *)

AgentInit ==
    /\ pc = "main"
    /\ accounts = <<>>
    /\ idx = 0
    /\ executors = EmptyRegistry
    /\ err = ErrNone
    /\ createCalls = 0
    /\ served = 0

\* config.LoadAgentConfig, then NewAgentService.
LoadAgentConfig ==
    /\ pc = "main"
    /\ \E ok \in BOOLEAN :
          pc' = IF ok THEN "createExecutors" ELSE "configFatal"
    /\ executors' = EmptyRegistry
    /\ UNCHANGED <<accounts, idx, err, createCalls, served, tagVars>>

\* createExecutors entry: readCloudProviderAccounts fails.
ReadAccountsFail ==
    /\ pc = "createExecutors"
    /\ createCalls' = createCalls + 1
    /\ err' = ErrConfigRead
    /\ pc' = "createReturned"
    /\ UNCHANGED <<accounts, idx, executors, served, tagVars>>

\* createExecutors entry: readCloudProviderAccounts returns the list.
ReadAccountsOK ==
    /\ pc = "createExecutors"
    /\ createCalls' = createCalls + 1
    /\ \E list \in AccountLists : accounts' = list
    /\ idx' = 1
    /\ pc' = "loop"
    /\ UNCHANGED <<executors, err, served, tagVars>>

InLoop == pc = "loop" /\ idx <= Len(accounts)

\* Mutant of StepAWS: log the error and go on with the next account.
StepAWSBestEffort ==
    /\ InLoop
    /\ accounts[idx].Provider = AWSProvider
    /\ LET r == AddExecutor(executors, NewAWSExecutor(accounts[idx]))
       IN /\ executors' = r.executors
          /\ err' = err
          /\ idx' = idx + 1
          /\ pc' = "loop"
    /\ UNCHANGED <<accounts, createCalls, served, tagVars>>

\* case inventory.AWSProvider
StepAWS ==
    /\ InLoop
    /\ accounts[idx].Provider = AWSProvider
    /\ LET r == AddExecutor(executors, NewAWSExecutor(accounts[idx]))
       IN /\ executors' = r.executors
          /\ IF r.err # ErrNone
             THEN /\ err' = r.err
                  /\ pc' = "createReturned"
                  /\ idx' = idx
             ELSE /\ err' = err
                  /\ pc' = "loop"
                  /\ idx' = idx + 1
    /\ UNCHANGED <<accounts, createCalls, served, tagVars>>

\* Mutant of StepGCP: treat the account as an AWS one.
StepGCPBuilds ==
    /\ InLoop
    /\ accounts[idx].Provider = GCPProvider
    /\ LET r == AddExecutor(executors, NewAWSExecutor(accounts[idx]))
       IN executors' = r.executors
    /\ idx' = idx + 1
    /\ UNCHANGED <<pc, accounts, err, createCalls, served, tagVars>>

\* case inventory.GCPProvider: a warning, nothing else
StepGCP ==
    /\ InLoop
    /\ accounts[idx].Provider = GCPProvider
    /\ idx' = idx + 1
    /\ UNCHANGED <<pc, accounts, executors, err, createCalls, served, tagVars>>

\* case inventory.AzureProvider: a warning, nothing else
StepAzure ==
    /\ InLoop
    /\ accounts[idx].Provider = AzureProvider
    /\ idx' = idx + 1
    /\ UNCHANGED <<pc, accounts, executors, err, createCalls, served, tagVars>>

\* no case of the switch matches (the switch has no default)
StepOther ==
    /\ InLoop
    /\ accounts[idx].Provider \notin {AWSProvider, GCPProvider, AzureProvider}
    /\ idx' = idx + 1
    /\ UNCHANGED <<pc, accounts, executors, err, createCalls, served, tagVars>>

\* the range loop is over: return nil
LoopEnd ==
    /\ pc = "loop"
    /\ idx > Len(accounts)
    /\ pc' = "createReturned"
    /\ UNCHANGED <<accounts, idx, executors, err, createCalls, served, tagVars>>

\* Mutant of MainCheckCreate: log the error and start the server anyway.
MainCheckCreateLogOnly ==
    /\ pc = "createReturned"
    /\ pc' = "listen"
    /\ UNCHANGED <<accounts, idx, executors, err, createCalls, served, tagVars>>

\* main: err = agent.createExecutors(); Panic on error
MainCheckCreate ==
    /\ pc = "createReturned"
    /\ pc' = IF err # ErrNone THEN "panicked" ELSE "listen"
    /\ UNCHANGED <<accounts, idx, executors, err, createCalls, served, tagVars>>

\* main: grpc.NewServer, RegisterAgentServiceServer, net.Listen
Listen ==
    /\ pc = "listen"
    /\ \E ok \in BOOLEAN :
          pc' = IF ok THEN "serving" ELSE "exited"
    /\ UNCHANGED <<accounts, idx, executors, err, createCalls, served, tagVars>>

\* One unary call through LoggingInterceptor into the embedded
\* UnimplementedAgentServiceServer.
HandleRPC ==
    /\ pc = "serving"
    /\ served < MaxRPC
    /\ served' = served + 1
    /\ UNCHANGED <<pc, accounts, idx, executors, err, createCalls, tagVars>>

\* grpcServer.Serve returns: Fatal on an error, "Finished" otherwise
ServeReturn ==
    /\ pc = "serving"
    /\ \E failed \in BOOLEAN :
          pc' = IF failed THEN "serveFatal" ELSE "finished"
    /\ UNCHANGED <<accounts, idx, executors, err, createCalls, served, tagVars>>

AgentNext ==
    \/ LoadAgentConfig
    \/ ReadAccountsFail
    \/ ReadAccountsOK
    \/ StepAWS
    \/ StepGCP
    \/ StepAzure
    \/ StepOther
    \/ LoopEnd
    \/ MainCheckCreate
    \/ Listen
    \/ HandleRPC
    \/ ServeReturn

-----------------------------------------------------------------------------
(* Tag identity resolver: strings and the three regular expressions *)

\* inventory.ClusterTagKey, "kubernetes.io/cluster/"
ClusterTagKey ==
    <<"k","u","b","e","r","n","e","t","e","s",".","i","o","/",
      "c","l","u","s","t","e","r","/">>

\* The literal head the three patterns share, "kubernetes.io/cluster/":
\* in a pattern its "." is the any-character operator.
RegexpHead ==
    <<"k","u","b","e","r","n","e","t","e","s",".","i","o","/",
      "c","l","u","s","t","e","r","/">>

unknownClusterNameCode ==
    <<"U","N","K","N","O","W","N","-","C","L","U","S","T","E","R">>

unknownClusterIDCode ==
    <<"U","N","K","N","O","W","N","-","C","L","U","S","T","E","R">>

\* strings.Contains
Contains(s, sub) ==
    \E p \in 0..(Len(s) - Len(sub)) : SubSeq(s, p + 1, p + Len(sub)) = sub

\* "." of a Go regexp: any character but a newline
AnyChar(c) == c # "\n"

AllAny(s) == \A i \in 1..Len(s) : AnyChar(s[i])

\* RegexpHead matches key at the characters p+1 .. p+Len(RegexpHead)
HeadAt(key, p) ==
    /\ p + Len(RegexpHead) <= Len(key)
    /\ \A i \in 1..Len(RegexpHead) :
          IF RegexpHead[i] = "." THEN AnyChar(key[p + i])
          ELSE key[p + i] = RegexpHead[i]

\* After the head at p: n any-characters, "-", exactly five any-characters, end of text.
TailAt(key, p, n) ==
    LET dash == p + Len(RegexpHead) + n + 1
    IN /\ dash + 5 = Len(key)
       /\ key[dash] = "-"
       /\ AllAny(SubSeq(key, p + Len(RegexpHead) + 1, dash - 1))
       /\ AllAny(SubSeq(key, dash + 1, Len(key)))

\* The lengths n a match starting at p can take, and where a match can start.
Lengths(key, p) ==
    IF HeadAt(key, p)
    THEN {n \in 0..(Len(key) - p - Len(RegexpHead)) : TailAt(key, p, n)}
    ELSE {}

Starts(key) == {p \in 0..(Len(key) - Len(RegexpHead)) : Lengths(key, p) # {}}

Min(S) == CHOOSE x \in S : \A y \in S : x <= y
Max(S) == CHOOSE x \in S : \A y \in S : x >= y

\* Mutant of parseClusterName: the captured group is greedy and unanchored,
\* "kubernetes.io/cluster/(.*)-": everything up to the last "-".
parseClusterNameLastDash(key) ==
    LET S == {p \in 0..Len(key) : /\ HeadAt(key, p)
                                  /\ \E d \in (p + Len(RegexpHead) + 1)..Len(key) :
                                        key[d] = "-"}
    IN IF S = {} THEN unknownClusterNameCode
       ELSE LET p == Min(S)
                d == Max({e \in (p + Len(RegexpHead) + 1)..Len(key) : key[e] = "-"})
            IN SubSeq(key, p + Len(RegexpHead) + 1, d - 1)

\* parseClusterName: clusterNameRegexp = "kubernetes.io/cluster/(.*?)-.{5}$",
\* leftmost match, the lazy group as short as the rest allows.
parseClusterName(key) ==
    LET S == Starts(key)
    IN IF S = {} THEN unknownClusterNameCode
       ELSE LET p == Min(S)
                n == Min(Lengths(key, p))
            IN SubSeq(key, p + Len(RegexpHead) + 1, p + Len(RegexpHead) + n)

\* parseClusterID: compiles clusterNameRegexp as well.
parseClusterID(key) ==
    LET S == Starts(key)
    IN IF S = {} THEN unknownClusterIDCode
       ELSE LET p == Min(S)
                n == Min(Lengths(key, p))
            IN SubSeq(key, p + Len(RegexpHead) + 1, p + Len(RegexpHead) + n)

\* parseInfraID: infraIDRegexp = "kubernetes.io/cluster/.*-(.{5}?)$",
\* leftmost match, the greedy .* as long as the rest allows.
parseInfraID(key) ==
    LET S == Starts(key)
    IN IF S = {} THEN <<>>
       ELSE LET p == Min(S)
                n == Max(Lengths(key, p))
                dash == p + Len(RegexpHead) + n + 1
            IN SubSeq(key, dash + 1, dash + 5)

-----------------------------------------------------------------------------
(* Tag identity resolver: the functions over []Tag *)

\* The zero value of Tag.
ZeroTag == [Key |-> <<>>, Value |-> <<>>, InstanceID |-> <<>>]

\* LookForTagByKey returns &resultTag, a Tag that is never assigned, or nil.
NilTag == [Key |-> <<"n","i","l">>, Value |-> <<>>, InstanceID |-> <<"n","i","l">>]

RECURSIVE LookForTagByKey(_, _)
LookForTagByKey(key, ts) ==
    IF ts = <<>> THEN NilTag
    ELSE IF Head(ts).Key = key THEN ZeroTag
    ELSE LookForTagByKey(key, Tail(ts))

OwnerKey == <<"O","w","n","e","r">>
NameKey == <<"N","a","m","e">>

GetOwnerFromTags(ts) ==
    LET res == LookForTagByKey(OwnerKey, ts)
    IN IF res # NilTag THEN res.Key ELSE <<>>

GetInstanceNameFromTags(ts) ==
    LET res == LookForTagByKey(NameKey, ts)
    IN IF res # NilTag THEN res.Key ELSE <<>>

RECURSIVE GetClusterIDFromTags(_)
GetClusterIDFromTags(ts) ==
    IF ts = <<>> THEN unknownClusterNameCode
    ELSE IF Contains(Head(ts).Key, ClusterTagKey) THEN parseClusterID(Head(ts).Key)
    ELSE GetClusterIDFromTags(Tail(ts))

\* Mutant of GetClusterNameFromTags: the last marker tag decides.
RECURSIVE GetClusterNameLastMatch(_)
GetClusterNameLastMatch(ts) ==
    IF ts = <<>> THEN unknownClusterNameCode
    ELSE IF Contains(ts[Len(ts)].Key, ClusterTagKey) THEN parseClusterName(ts[Len(ts)].Key)
    ELSE GetClusterNameLastMatch(SubSeq(ts, 1, Len(ts) - 1))

RECURSIVE GetClusterNameFromTags(_)
GetClusterNameFromTags(ts) ==
    IF ts = <<>> THEN unknownClusterNameCode
    ELSE IF Contains(Head(ts).Key, ClusterTagKey) THEN parseClusterName(Head(ts).Key)
    ELSE GetClusterNameFromTags(Tail(ts))

RECURSIVE GetInfraIDFromTags(_)
GetInfraIDFromTags(ts) ==
    IF ts = <<>> THEN unknownClusterNameCode
    ELSE IF Contains(Head(ts).Key, ClusterTagKey) THEN parseInfraID(Head(ts).Key)
    ELSE GetInfraIDFromTags(Tail(ts))

-----------------------------------------------------------------------------
(* Resolver inputs and calls. The functions keep no state: each call is made on
   a tag list no call was made on yet. *)

\* Cluster-name parts: every string over {"a", "-"} of at most MaxName characters.
NameParts == SeqsUpTo({"a", "-"}, MaxName)

\* What follows the name part in a key: a five-character suffix, one with a "-"
\* in it, one of four characters, none.
KeyTails ==
    { <<>>,
      <<"-","a","a","a","a","a">>,
      <<"-","a","-","a","a","a">>,
      <<"-","a","a","a","a">> }

MarkerKeys == {ClusterTagKey \o n \o t : n \in NameParts, t \in KeyTails}

\* "kubernetes.io/cluster/mycluster-ab12c"
ExampleKey == ClusterTagKey \o <<"m","y","c","l","u","s","t","e","r","-","a","b","1","2","c">>

\* The key above; the marker after a leading character; the pattern's head with
\* another character in the place of its ".", which the marker does not contain.
OddKeys ==
    { ExampleKey,
      <<"z">> \o ClusterTagKey \o <<"a","-","a","a","a","a","a">>,
      <<"k","u","b","e","r","n","e","t","e","s","X","i","o","/",
        "c","l","u","s","t","e","r","/","a","-","a","a","a","a","a">> }

TagValues == {<<"v","1">>, <<"v","2">>}
InstanceIDs == {<<"i","-","0">>}

TagSet ==
    [Key : MarkerKeys \cup OddKeys, Value : {<<"o","w","n","e","d">>}, InstanceID : InstanceIDs]
    \cup [Key : {OwnerKey, NameKey}, Value : TagValues, InstanceID : InstanceIDs]

TagLists == SeqsUpTo(TagSet, MaxTags)

\* The agent has not started; the resolver is given any bounded tag list.
InitTags ==
    /\ AgentInit
    /\ tags \in TagLists
    /\ op = "none"
    /\ result = <<>>

CallGetOwner ==
    /\ op = "none"
    /\ op' = "GetOwnerFromTags"
    /\ result' = GetOwnerFromTags(tags)
    /\ UNCHANGED <<tags, agentVars>>

CallGetInstanceName ==
    /\ op = "none"
    /\ op' = "GetInstanceNameFromTags"
    /\ result' = GetInstanceNameFromTags(tags)
    /\ UNCHANGED <<tags, agentVars>>

CallGetClusterID ==
    /\ op = "none"
    /\ op' = "GetClusterIDFromTags"
    /\ result' = GetClusterIDFromTags(tags)
    /\ UNCHANGED <<tags, agentVars>>

CallGetClusterName ==
    /\ op = "none"
    /\ op' = "GetClusterNameFromTags"
    /\ result' = GetClusterNameFromTags(tags)
    /\ UNCHANGED <<tags, agentVars>>

CallGetInfraID ==
    /\ op = "none"
    /\ op' = "GetInfraIDFromTags"
    /\ result' = GetInfraIDFromTags(tags)
    /\ UNCHANGED <<tags, agentVars>>

TagsNext ==
    \/ CallGetOwner
    \/ CallGetInstanceName
    \/ CallGetClusterID
    \/ CallGetClusterName
    \/ CallGetInfraID

\* The resolver on its own: any bounded tag list, any one of the five calls.
SpecTags == InitTags /\ [][TagsNext]_vars

-----------------------------------------------------------------------------
TagsIdle == tags = <<>> /\ op = "none" /\ result = <<>>

Init == AgentInit /\ TagsIdle

Next == AgentNext

Spec == Init /\ [][Next]_vars


-----------------------------------------------------------------------------
(* Properties of the registry and of startup *)

\* createExecutors was entered and has returned.
CreateReturned == createCalls > 0 /\ pc # "loop"

AWSIndexes(list) == {i \in 1..Len(list) : list[i].Provider = AWSProvider}

\* The registry a list should leave: one key per AWS account name, bound to the
\* executor of the last AWS descriptor carrying that name.
ExpectedRegistry(list) ==
    [n \in {list[i].Name : i \in AWSIndexes(list)} |->
        NewAWSExecutor(list[Max({i \in AWSIndexes(list) : list[i].Name = n})])]

\* The first position whose AWS executor cannot be constructed, 0 if there is none.
FirstFail(list) ==
    LET F == {i \in AWSIndexes(list) : NewAWSExecutor(list[i]) = Nil}
    IN IF F = {} THEN 0 ELSE Min(F)

\* C1: AddExecutor with the nil executor returns the error and leaves the registry
\* as it was (same keys, same bindings), in every registry state the agent reaches;
\* when createExecutors failed on such a call, the registry is the one the accounts
\* before the failing one had built.
C1_NilExecutorRejected ==
    /\ LET r == AddExecutor(executors, Nil)
       IN /\ r.err = ErrNilExecutor
          /\ DOMAIN r.executors = DOMAIN executors
          /\ \A k \in DOMAIN executors : r.executors[k] = executors[k]
    /\ err = ErrNilExecutor =>
          executors = ExpectedRegistry(SubSeq(accounts, 1, idx - 1))

\* A nil executor was refused while the registry held an entry.
C1_Witness ==
    /\ err = ErrNilExecutor
    /\ NewAWSExecutor(accounts[idx]) = Nil
    /\ executors # EmptyRegistry

\* C2: once createExecutors has returned nil, the registry holds exactly one entry
\* per distinct AWS account name of the list, each bound to the executor built from
\* the last AWS descriptor with that name.
C2_LastWriteWins ==
    (CreateReturned /\ err = ErrNone) =>
        /\ executors = ExpectedRegistry(accounts)
        /\ Cardinality(DOMAIN executors)
              = Cardinality({accounts[i].Name : i \in AWSIndexes(accounts)})

\* [{AWS,acct-a}, {GCP,acct-b}, {AWS,acct-a}] ends with the single key acct-a bound
\* to the executor of the second AWS descriptor.
C2_Witness ==
    /\ CreateReturned /\ err = ErrNone
    /\ accounts = << [Provider |-> AWSProvider, Name |-> "acct-a", Key |-> "key1"],
                     [Provider |-> GCPProvider, Name |-> "acct-b", Key |-> "key1"],
                     [Provider |-> AWSProvider, Name |-> "acct-a", Key |-> "key2"] >>
    /\ DOMAIN executors = {"acct-a"}
    /\ executors["acct-a"] = [Name |-> "acct-a", Provider |-> AWSProvider, Key |-> "key2"]

Unimplemented == {GCPProvider, AzureProvider}

\* C3: a GCP or Azure descriptor never produces an executor (every registry entry
\* is the executor of an AWS descriptor of the list, and a name only GCP/Azure
\* descriptors carry is no key), raises no error (an error of createExecutors is
\* the read error or comes from the AWS account at idx; with no failing AWS
\* account the call returns nil), and does not stop the loop (on return with nil
\* every position was visited and every AWS account after a GCP/Azure one has
\* its entry).
C3_UnimplementedSkipped ==
    /\ \A k \in DOMAIN executors :
          /\ executors[k].Provider = AWSProvider
          /\ \E i \in AWSIndexes(accounts) : accounts[i].Name = k
    /\ \A i \in 1..Len(accounts) :
          (/\ accounts[i].Provider \in Unimplemented
           /\ \A j \in AWSIndexes(accounts) : accounts[j].Name # accounts[i].Name)
          => accounts[i].Name \notin DOMAIN executors
    /\ (CreateReturned /\ err # ErrNone) =>
          \/ err = ErrConfigRead
          \/ idx \in AWSIndexes(accounts)
    /\ (CreateReturned /\ err # ErrConfigRead /\ FirstFail(accounts) = 0) =>
          /\ err = ErrNone
          /\ idx = Len(accounts) + 1
          /\ \A i \in 1..Len(accounts), j \in AWSIndexes(accounts) :
                (accounts[i].Provider \in Unimplemented /\ j > i)
                => accounts[j].Name \in DOMAIN executors

\* A GCP or Azure account came first, the AWS account after it was provisioned.
C3_Witness ==
    /\ CreateReturned /\ err = ErrNone
    /\ Len(accounts) >= 2
    /\ accounts[1].Provider \in Unimplemented
    /\ accounts[2].Provider = AWSProvider
    /\ accounts[1].Name \notin DOMAIN executors
    /\ accounts[2].Name \in DOMAIN executors

\* C4: when the AWS executor of position i cannot be constructed or added, the loop
\* never goes past i, createExecutors returns the error of that call, the registry
\* is the one the accounts before i built (no later account has an entry of its
\* own), and main does not go on to listen.
C4_FailFast ==
    LET i == FirstFail(accounts)
    IN i # 0 =>
          /\ idx <= i
          /\ CreateReturned =>
                /\ err = ErrNilExecutor
                /\ idx = i
                /\ executors = ExpectedRegistry(SubSeq(accounts, 1, i - 1))
                /\ pc \in {"createReturned", "panicked"}

\* The second of three accounts failed; the third, a sound AWS account, has no entry.
C4_Witness ==
    /\ pc = "panicked"
    /\ Len(accounts) = 3
    /\ FirstFail(accounts) = 2
    /\ accounts[3].Provider = AWSProvider
    /\ NewAWSExecutor(accounts[3]) # Nil
    /\ accounts[3].Name \notin DOMAIN executors
    /\ executors # EmptyRegistry

Serving == {"serving", "finished", "serveFatal"}

\* C9: createExecutors runs once and has returned nil, with every account visited,
\* before the server serves; after a provisioning error, a configuration error or a
\* listener error the process never serves; serving starts only from a successful
\* net.Listen; and from then on the registry does not change.
C9_StartupOrdering ==
    /\ [](/\ createCalls <= 1
          /\ pc \in Serving =>
                /\ createCalls = 1
                /\ err = ErrNone
                /\ idx = Len(accounts) + 1
          /\ served > 0 => pc \in Serving)
    /\ [][/\ pc \in {"panicked", "exited", "configFatal"} => pc' = pc
          /\ (pc' \in Serving /\ pc \notin Serving) => (pc = "listen" /\ err = ErrNone)
          /\ pc \in Serving => executors' = executors]_vars

\* The server has handled calls over a registry that holds an executor.
C9_Witness ==
    /\ pc = "serving"
    /\ served = MaxRPC
    /\ executors # EmptyRegistry

-----------------------------------------------------------------------------
(* Properties of the tag identity resolver *)

MarkerIndexes(ts) == {i \in 1..Len(ts) : Contains(ts[i].Key, ClusterTagKey)}

\* The key of the first tag holding the marker.
FirstMarkerKey(ts) == ts[Min(MarkerIndexes(ts))].Key

\* key is kubernetes.io/cluster/<name>-<s>, s of five characters.
HasShape(key) ==
    /\ Len(key) >= Len(ClusterTagKey) + 6
    /\ SubSeq(key, 1, Len(ClusterTagKey)) = ClusterTagKey
    /\ key[Len(key) - 5] = "-"

ShapeName(key) == SubSeq(key, Len(ClusterTagKey) + 1, Len(key) - 6)
ShapeSuffix(key) == SubSeq(key, Len(key) - 4, Len(key))

\* The Value of the first tag whose Key is key, "" when there is none.
RECURSIVE ValueOfFirst(_, _)
ValueOfFirst(key, ts) ==
    IF ts = <<>> THEN <<>>
    ELSE IF Head(ts).Key = key THEN Head(ts).Value
    ELSE ValueOfFirst(key, Tail(ts))

\* C5: GetOwnerFromTags returns the Value of the first tag whose Key is "Owner",
\* "" when there is none; GetInstanceNameFromTags the same for "Name".
C5_OwnerAndNameValues ==
    /\ op = "GetOwnerFromTags" => result = ValueOfFirst(OwnerKey, tags)
    /\ op = "GetInstanceNameFromTags" => result = ValueOfFirst(NameKey, tags)

\* C6: GetInfraIDFromTags returns "" and never the sentinel when no infrastructure
\* ID can be extracted, also when no tag key holds the marker.
C6_InfraIDEmptyOnNoMatch ==
    op = "GetInfraIDFromTags" =>
        /\ result # unknownClusterNameCode
        /\ MarkerIndexes(tags) = {} => result = <<>>

\* C7: for a first marker key kubernetes.io/cluster/<name>-<s>, s of five
\* characters, GetClusterIDFromTags returns s, the segment GetInfraIDFromTags
\* returns, so it differs from the cluster name whenever <name> differs from s.
C7_ClusterIDIsSuffix ==
    (/\ op = "GetClusterIDFromTags"
     /\ MarkerIndexes(tags) # {}
     /\ HasShape(FirstMarkerKey(tags)))
    => /\ result = ShapeSuffix(FirstMarkerKey(tags))
       /\ result = GetInfraIDFromTags(tags)

\* C8: for a first marker key kubernetes.io/cluster/<name>-<s>, s of five
\* characters, GetClusterNameFromTags returns <name> (with or without "-" in it),
\* GetInfraIDFromTags returns s, and name, "-", infra ID put together give back
\* what follows the marker in the key.
C8_NameAndInfraIDRoundTrip ==
    (MarkerIndexes(tags) # {} /\ HasShape(FirstMarkerKey(tags))) =>
        LET key == FirstMarkerKey(tags)
        IN /\ op = "GetClusterNameFromTags" => result = ShapeName(key)
           /\ op = "GetInfraIDFromTags" => result = ShapeSuffix(key)
           /\ GetClusterNameFromTags(tags) \o <<"-">> \o GetInfraIDFromTags(tags)
                 = SubSeq(key, Len(ClusterTagKey) + 1, Len(key))

\* kubernetes.io/cluster/mycluster-ab12c gives "mycluster" and "ab12c".
C8_Witness ==
    /\ Len(tags) >= 1
    /\ tags[1].Key = ExampleKey
    /\ op = "GetInfraIDFromTags"
    /\ result = <<"a","b","1","2","c">>
    /\ GetClusterNameFromTags(tags) = <<"m","y","c","l","u","s","t","e","r">>

\* C10: when some tag key holds the marker, each of the three functions returns
\* its extraction applied to the key of the first such tag; the tags after it
\* change nothing.
C10_FirstMatchOnly ==
    MarkerIndexes(tags) # {} =>
        LET key == FirstMarkerKey(tags)
            upTo == SubSeq(tags, 1, Min(MarkerIndexes(tags)))
        IN /\ op = "GetClusterNameFromTags" =>
                 result = parseClusterName(key) /\ result = GetClusterNameFromTags(upTo)
           /\ op = "GetClusterIDFromTags" =>
                 result = parseClusterID(key) /\ result = GetClusterIDFromTags(upTo)
           /\ op = "GetInfraIDFromTags" =>
                 result = parseInfraID(key) /\ result = GetInfraIDFromTags(upTo)

\* The first marker key fails the pattern, the second would have matched it: the
\* result is the no-match value.
C10_Witness ==
    /\ Len(tags) = 2
    /\ MarkerIndexes(tags) = {1, 2}
    /\ ~HasShape(tags[1].Key)
    /\ HasShape(tags[2].Key)
    /\ parseClusterName(tags[2].Key) # unknownClusterNameCode
    /\ op = "GetClusterNameFromTags"
    /\ result = unknownClusterNameCode

=============================================================================
